---------------------------- MODULE Spec2Model ----------------------------
(***************************************************************************)
(* A model of flag.ts: the typed values, the Flag wrapper, the FlagSet     *)
(* registry and its token-consumption loop.                                *)
(*                                                                         *)
(* Strings are sequences of one-character strings, so that startsWith,     *)
(* substring, indexOf, toLowerCase and parseFloat are computed the way the *)
(* code computes them.  An absent (undefined) string is the value Undef.   *)
(***************************************************************************)
EXTENDS Integers, Sequences, FiniteSets, TLC

(***************************************************************************)
(* Bounds of the model.                                                    *)
(***************************************************************************)
\* the longest token sequence an argument provider hands to parse
MaxArgs == 3
\* the largest number of flags a registry holds
MaxFlags == 2

(***************************************************************************)
(* JavaScript string primitives.                                           *)
(***************************************************************************)
\* undefined, told apart from every string (a string holds one-character elements)
Undef == <<"undefined">>

Digits == <<"0", "1", "2", "3", "4", "5", "6", "7", "8", "9">>

UpperCase == <<"A", "B", "C", "D", "E", "F", "G", "H", "I", "J", "K", "L", "M",
               "N", "O", "P", "Q", "R", "S", "T", "U", "V", "W", "X", "Y", "Z">>

LowerCase == <<"a", "b", "c", "d", "e", "f", "g", "h", "i", "j", "k", "l", "m",
               "n", "o", "p", "q", "r", "s", "t", "u", "v", "w", "x", "y", "z">>

WhiteSpace == {" ", "\t", "\n", "\r"}

IsDigit(c) == \E i \in 1..10 : Digits[i] = c

DigitVal(c) == (CHOOSE i \in 1..10 : Digits[i] = c) - 1

ToLowerChar(c) ==
    IF \E i \in 1..26 : UpperCase[i] = c
    THEN LowerCase[CHOOSE i \in 1..26 : UpperCase[i] = c]
    ELSE c

RECURSIVE ToLowerCase(_)
ToLowerCase(s) ==
    IF s = <<>> THEN <<>>
    ELSE <<ToLowerChar(Head(s))>> \o ToLowerCase(Tail(s))

\* s.startsWith(p)
StartsWith(s, p) == Len(s) >= Len(p) /\ SubSeq(s, 1, Len(p)) = p

\* s.substring(from), from counted from 0
Substring(s, from) == SubSeq(s, from + 1, Len(s))

\* s.substring(from, to), both counted from 0
SubstringTo(s, from, to) == SubSeq(s, from + 1, to)

\* s.indexOf(c): the 0-based place of the first c, -1 when there is none
IndexOf(s, c) ==
    IF \E i \in 1..Len(s) : s[i] = c
    THEN (CHOOSE i \in 1..Len(s) : s[i] = c /\ \A j \in 1..(i - 1) : s[j] # c) - 1
    ELSE -1

\* the truthiness of a string: only the empty string is falsy
Truthy(s) == s # <<>>

(***************************************************************************)
(* Numbers.  A finite number is m / 10^s with s = 0 or m not a multiple of *)
(* 10; kind "inf" carries its sign in m; "nan" is NaN.                     *)
(***************************************************************************)
NaN == [kind |-> "nan", m |-> 0, s |-> 0]

Infinity(sign) == [kind |-> "inf", m |-> sign, s |-> 0]

InfinityLiteral == <<"I", "n", "f", "i", "n", "i", "t", "y">>

RECURSIVE Pow10(_)
Pow10(n) == IF n <= 0 THEN 1 ELSE 10 * Pow10(n - 1)

RECURSIVE Normalize(_, _)
Normalize(m, s) ==
    IF s > 0 /\ m % 10 = 0 THEN Normalize(m \div 10, s - 1) ELSE <<m, s>>

FiniteOf(sign, ms) == [kind |-> "fin", m |-> sign * ms[1], s |-> ms[2]]

Finite(sign, m, s) ==
    FiniteOf(sign, IF s < 0 THEN <<m * Pow10(-s), 0>> ELSE Normalize(m, s))

Num(n) == Finite(1, n, 0)

RECURSIVE DigitRun(_, _)
DigitRun(s, i) ==
    IF i <= Len(s) /\ IsDigit(s[i]) THEN 1 + DigitRun(s, i + 1) ELSE 0

RECURSIVE SpaceRun(_, _)
SpaceRun(s, i) ==
    IF i <= Len(s) /\ s[i] \in WhiteSpace THEN 1 + SpaceRun(s, i + 1) ELSE 0

RECURSIVE DigitsToNat(_)
DigitsToNat(ds) ==
    IF ds = <<>> THEN 0
    ELSE 10 * DigitsToNat(SubSeq(ds, 1, Len(ds) - 1)) + DigitVal(ds[Len(ds)])

RECURSIVE NatToDigits(_)
NatToDigits(n) ==
    IF n < 10 THEN <<Digits[n + 1]>>
    ELSE NatToDigits(n \div 10) \o <<Digits[(n % 10) + 1]>>

RECURSIVE PadLeft(_, _)
PadLeft(ds, width) == IF Len(ds) >= width THEN ds ELSE PadLeft(<<"0">> \o ds, width)

\* the value of the digits of an exponent that start at place pd
ExponentValue(str, pd, sign) ==
    sign * DigitsToNat(SubSeq(str, pd, pd + DigitRun(str, pd) - 1))

\* the exponent part at place p ("e" or "E", an optional sign, digits);
\* 0 when there is none or it has no digit
ExponentAt(str, p) ==
    IF ~(p <= Len(str) /\ str[p] \in {"e", "E"}) THEN 0
    ELSE IF p + 1 <= Len(str) /\ str[p + 1] = "-" THEN ExponentValue(str, p + 2, -1)
    ELSE IF p + 1 <= Len(str) /\ str[p + 1] = "+" THEN ExponentValue(str, p + 2, 1)
    ELSE ExponentValue(str, p + 1, 1)

\* nInt digits at p1, then nFrac digits after a dot, the mantissa ending before p3
DecimalAt(str, sign, p1, nInt, nFrac, p3) ==
    IF nInt + nFrac = 0 THEN NaN
    ELSE Finite(sign,
                DigitsToNat(SubSeq(str, p1, p1 + nInt - 1)
                            \o SubSeq(str, p1 + nInt + 1, p1 + nInt + nFrac)),
                nFrac - ExponentAt(str, p3))

FractionAt(str, sign, p1, nInt) ==
    IF p1 + nInt <= Len(str) /\ str[p1 + nInt] = "."
    THEN DecimalAt(str, sign, p1, nInt, DigitRun(str, p1 + nInt + 1),
                   p1 + nInt + 1 + DigitRun(str, p1 + nInt + 1))
    ELSE DecimalAt(str, sign, p1, nInt, 0, p1 + nInt)

UnsignedAt(str, sign, p1) ==
    IF StartsWith(SubSeq(str, p1, Len(str)), InfinityLiteral) THEN Infinity(sign)
    ELSE FractionAt(str, sign, p1, DigitRun(str, p1))

SignedAt(str, p0) ==
    IF p0 <= Len(str) /\ str[p0] = "-" THEN UnsignedAt(str, -1, p0 + 1)
    ELSE IF p0 <= Len(str) /\ str[p0] = "+" THEN UnsignedAt(str, 1, p0 + 1)
    ELSE UnsignedAt(str, 1, p0)

\* parseFloat(str): the number written by the longest prefix of str (after
\* leading white space) that is a decimal literal, NaN when there is none
ParseFloat(str) == SignedAt(str, 1 + SpaceRun(str, 1))

\* String(num), for the magnitudes JavaScript writes without an exponent
DecimalToString(abs, s) ==
    NatToDigits(abs \div Pow10(s))
    \o (IF s = 0 THEN <<>> ELSE <<".">> \o PadLeft(NatToDigits(abs % Pow10(s)), s))

NumberToString(n) ==
    IF n.kind = "nan" THEN <<"N", "a", "N">>
    ELSE IF n.kind = "inf"
    THEN (IF n.m < 0 THEN <<"-">> ELSE <<>>) \o InfinityLiteral
    ELSE IF n.m < 0 THEN <<"-">> \o DecimalToString(-n.m, n.s)
    ELSE DecimalToString(n.m, n.s)

\* String(bool)
BooleanToString(b) ==
    IF b THEN <<"t", "r", "u", "e">> ELSE <<"f", "a", "l", "s", "e">>

RECURSIVE Join(_, _)
Join(list, sep) ==
    IF list = <<>> THEN <<>>
    ELSE IF Len(list) = 1 THEN list[1]
    ELSE list[1] \o sep \o Join(Tail(list), sep)


(***************************************************************************)
(* Typed values (IFlag).  A set() either gives the new currentValue or     *)
(* throws FlagParseError(message, undefined, stringValue).                 *)
(***************************************************************************)
TypeNames == {"boolean", "string", "number", "string[]"}

\* A held value is written as a record with one field per type, of which the
\* holder's type reads and writes its own: b (boolean), s (string), n (number),
\* l (string[]).
NoValue == [b |-> FALSE, s |-> <<>>, n |-> Num(0), l |-> <<>>]

BoolV(b) == [NoValue EXCEPT !.b = b]

StrV(s) == [NoValue EXCEPT !.s = s]

NumV(n) == [NoValue EXCEPT !.n = n]

ListV(l) == [NoValue EXCEPT !.l = l]

TrueLiteral == <<"t", "r", "u", "e">>

FalseLiteral == <<"f", "a", "l", "s", "e">>

SetOk(v) == [ok |-> TRUE, value |-> v, message |-> "", offendingValue |-> Undef]

SetThrows(cur, msg, str) ==
    [ok |-> FALSE, value |-> cur, message |-> msg, offendingValue |-> str]

BooleanOfLower(cur, str, lower) ==
    IF lower = TrueLiteral \/ lower = <<"1">> THEN SetOk(BoolV(TRUE))
    ELSE IF lower = FalseLiteral \/ lower = <<"0">> THEN SetOk(BoolV(FALSE))
    ELSE SetThrows(cur, "invalid boolean value", str)

BooleanValueSet(cur, str) == BooleanOfLower(cur, str, ToLowerCase(str))

StringValueSet(cur, str) == SetOk(StrV(str))

\* a variant that stores the parsed number before it tests it
NumberOfParsedStoresFirst(cur, str, num) ==
    IF num.kind = "nan" THEN SetThrows(NumV(num), "invalid number", str)
    ELSE SetOk(NumV(num))

NumberOfParsed(cur, str, num) ==
    IF num.kind = "nan" THEN SetThrows(cur, "invalid number", str) ELSE SetOk(NumV(num))

NumberValueSet(cur, str) == NumberOfParsed(cur, str, ParseFloat(str))

\* a variant that replaces the list instead of appending to it
StringListValueSetReplaces(cur, str) == SetOk(ListV(<<str>>))

StringListValueSet(cur, str) == SetOk(ListV(Append(cur.l, str)))

\* valueHolder.set(stringValue), by the holder's class
ValueSet(type, cur, str) ==
    CASE type = "boolean"  -> BooleanValueSet(cur, str)
      [] type = "string"   -> StringValueSet(cur, str)
      [] type = "number"   -> NumberValueSet(cur, str)
      [] type = "string[]" -> StringListValueSet(cur, str)

\* valueHolder.asString()
AsString(type, cur, initialDefault) ==
    CASE type = "boolean"  -> BooleanToString(cur.b)
      [] type = "string"   -> cur.s
      [] type = "number"   -> NumberToString(cur.n)
      [] type = "string[]" -> IF Len(cur.l) = 0 /\ Len(initialDefault.l) = 0 THEN <<>>
                              ELSE Join(cur.l, <<",", " ">>)

\* a variant in which the boolean holder expects a value like the others
ExpectsExplicitValueAlways(type) == TRUE

ExpectsExplicitValue(type) == type # "boolean"

\* valueHolder._clearAndReset(value): (value && this.set(value)) for the three
\* scalar holders, a copy of initialDefault for the list holder
ClearAndReset(type, cur, initialDefault, str) ==
    IF type = "string[]" THEN SetOk(initialDefault)
    ELSE IF Truthy(str) THEN ValueSet(type, cur, str)
    ELSE SetOk(cur)

(***************************************************************************)
(* Flag.  defaultValue is the constructor argument of the value holder; the *)
(* code keeps it only in the list holder (initialDefault) and, rendered, in *)
(* initialDefaultValueString.                                               *)
(***************************************************************************)
AliasFormatOk(alias) ==
    ~(Len(alias) # 1 \/ alias = <<"-">> \/ alias = <<"=">>)

\* new Flag({name, alias, valueHolder}) for a holder built on defaultValue
\* if (options.alias): undefined and the empty string are no alias
AliasGiven(alias) == alias # Undef /\ Truthy(alias)

NewFlag(type, name, alias, defaultValue) ==
    IF AliasGiven(alias) /\ ~AliasFormatOk(alias)
    THEN [ok |-> FALSE]
    ELSE [ok |-> TRUE,
          flag |-> [name |-> name,
                    alias |-> IF AliasGiven(alias) THEN alias ELSE Undef,
                    type |-> type,
                    defaultValue |-> defaultValue,
                    currentValue |-> defaultValue,
                    initialDefaultValueString |->
                        AsString(type, defaultValue, defaultValue),
                    isSet |-> FALSE]]

\* flag._setValueFromString(stringValue)
\* the flag after valueHolder.set(...) gave r: the holder is as set() left
\* it, and isSet is raised only when the set did not throw
FlagAfterSet(flag, r) ==
    IF r.ok
    THEN [ok |-> TRUE, flag |-> [flag EXCEPT !.currentValue = r.value, !.isSet = TRUE],
          message |-> "", offendingValue |-> Undef]
    ELSE [ok |-> FALSE, flag |-> [flag EXCEPT !.currentValue = r.value],
          message |-> r.message, offendingValue |-> r.offendingValue]

SetValueFromString(flag, str) ==
    FlagAfterSet(flag, ValueSet(flag.type, flag.currentValue, str))

\* flag._setImplicitly()
SetImplicitly(flag) ==
    IF flag.type = "boolean"
    THEN FlagAfterSet(flag, ValueSet(flag.type, flag.currentValue, TrueLiteral))
    ELSE [ok |-> FALSE, flag |-> flag,
          message |-> "cannot be set implicitly without a value",
          offendingValue |-> Undef]

\* flag._resetToDefault().  With the finite defaults of this model the set()
\* inside _clearAndReset never throws.
ResetToDefault(flag) ==
    [flag EXCEPT !.currentValue =
                     ClearAndReset(flag.type, flag.currentValue, flag.defaultValue,
                                   flag.initialDefaultValueString).value,
                 !.isSet = FALSE]

(***************************************************************************)
(* FlagSet.  flags and aliases are the two Maps, argv is the token list    *)
(* the injected argument provider returns, last records what the latest    *)
(* call did (its outcome and, for a throw, the error's fields) and, in      *)
(* before, the registry state the call found; for the top-level parse      *)
(* function, also what it wrote to the output writer, in order, and the    *)
(* code it gave process.exit.                                              *)
(***************************************************************************)
VARIABLES flags, aliases, isParsed, processingArgs, argv, last

vars == <<flags, aliases, isParsed, processingArgs, argv, last>>

EmptyMap == <<>>

MapHas(m, k) == k \in DOMAIN m

MapSet(m, k, v) == [x \in (DOMAIN m) \cup {k} |-> IF x = k THEN v ELSE m[x]]

\* Array.from(map.values()).includes(v)
MapValuesInclude(m, v) == \E k \in DOMAIN m : m[k] = v

NoDecl == [type |-> "none", name |-> Undef, alias |-> Undef,
           given |-> FALSE, defaultValue |-> NoValue]

Snapshot(fl, al, parsed) == [flags |-> fl, aliases |-> al, isParsed |-> parsed]

NoSnapshot == Snapshot(EmptyMap, EmptyMap, FALSE)

Called(op, outcome, before) ==
    [op |-> op, outcome |-> outcome, message |-> "", flagName |-> Undef,
     offendingValue |-> Undef, heads |-> <<>>, decl |-> NoDecl, before |-> before,
     sink |-> <<>>, exit |-> <<>>]

\* a variant of the first check that looks among the names only
NameTakenAmongNames(fl, al, name) == MapHas(fl, name)

\* the first check of _registerFlag
NameTaken(fl, al, name) == MapHas(fl, name) \/ MapHas(al, name)

\* the second check of _registerFlag
AliasTaken(fl, al, alias) ==
    MapHas(fl, alias) \/ MapHas(al, alias) \/ MapValuesInclude(al, alias)

\* a variant that adds the flag under its name before it looks at the alias
RegisterFlagNameFirst(fl, al, flag) ==
    IF NameTaken(fl, al, flag.name)
    THEN [ok |-> FALSE, flags |-> fl, aliases |-> al]
    ELSE IF flag.alias # Undef
    THEN IF AliasTaken(fl, al, flag.alias)
         THEN [ok |-> FALSE, flags |-> MapSet(fl, flag.name, flag), aliases |-> al]
         ELSE [ok |-> TRUE,
               flags |-> MapSet(fl, flag.name, flag),
               aliases |-> MapSet(al, flag.alias, flag.name)]
    ELSE [ok |-> TRUE, flags |-> MapSet(fl, flag.name, flag), aliases |-> al]

\* this._registerFlag(flag)
RegisterFlag(fl, al, flag) ==
    IF NameTaken(fl, al, flag.name)
    THEN [ok |-> FALSE, flags |-> fl, aliases |-> al]
    ELSE IF flag.alias # Undef
    THEN IF AliasTaken(fl, al, flag.alias)
         THEN [ok |-> FALSE, flags |-> fl, aliases |-> al]
         ELSE [ok |-> TRUE,
               flags |-> MapSet(fl, flag.name, flag),
               aliases |-> MapSet(al, flag.alias, flag.name)]
    ELSE [ok |-> TRUE, flags |-> MapSet(fl, flag.name, flag), aliases |-> al]

\* options.defaultValue ?? (false | "" | 0 | [])
TypeDefault(type) ==
    CASE type = "boolean"  -> BoolV(FALSE)
      [] type = "string"   -> StrV(<<>>)
      [] type = "number"   -> NumV(Num(0))
      [] type = "string[]" -> ListV(<<>>)

\* bool / string / number / stringList (name, {alias, defaultValue}) on a registry
RegisterMade(fl, al, made) ==
    IF ~made.ok THEN [ok |-> FALSE, flags |-> fl, aliases |-> al]
    ELSE RegisterFlag(fl, al, made.flag)

DeclareOn(fl, al, d) ==
    RegisterMade(fl, al,
                 NewFlag(d.type, d.name, d.alias,
                         IF d.given THEN d.defaultValue ELSE TypeDefault(d.type)))

\* the registry after a declaration that gave r (a throw leaves it as it was)
Declared(d, r) ==
    /\ ~r.ok \/ Cardinality(DOMAIN flags) < MaxFlags
    /\ flags' = r.flags
    /\ aliases' = r.aliases
    /\ last' = [Called("declare", IF r.ok THEN "ok" ELSE "FlagDefinitionError",
                        Snapshot(flags, aliases, isParsed))
                    EXCEPT !.decl = d]
    /\ UNCHANGED <<isParsed, processingArgs, argv>>

\* Declarations and resets are taken between two argument lists: composing
\* the list touches nothing of the registry, so the order of the two is free.
Declare(d) ==
    /\ argv = <<>>
    /\ Declared(d, DeclareOn(flags, aliases, d))

\* this.flags.forEach(flag => flag._resetToDefault())
ResetAll(fl) == [n \in DOMAIN fl |-> ResetToDefault(fl[n])]

\* flagSet.reset()
Reset ==
    /\ argv = <<>>
    /\ flags' = ResetAll(flags)
    /\ isParsed' = FALSE
    /\ processingArgs' = <<>>
    /\ last' = Called("reset", "ok", Snapshot(flags, aliases, isParsed))
    /\ UNCHANGED <<aliases, argv>>

(***************************************************************************)
(* _parseOne.  Its result is one of the three _ParseOneOutcome values, or  *)
(* a throw: "FlagParseError" with the error's fields, "HelpRequestError".  *)
(***************************************************************************)
Terminator == <<"-", "-">>

Returned(outcome, fl, queue) ==
    [outcome |-> outcome, flags |-> fl, queue |-> queue,
     message |-> "", flagName |-> Undef, offendingValue |-> Undef]

\* a variant whose throw puts every flag back to its default
ThrownRollsBack(error, fl, queue, msg, flagName, offendingValue) ==
    [outcome |-> error, flags |-> ResetAll(fl), queue |-> queue,
     message |-> msg, flagName |-> flagName, offendingValue |-> offendingValue]

Thrown(error, fl, queue, msg, flagName, offendingValue) ==
    [outcome |-> error, flags |-> fl, queue |-> queue,
     message |-> msg, flagName |-> flagName, offendingValue |-> offendingValue]

IsThrow(outcome) == outcome \in {"FlagParseError", "HelpRequestError"}

\* a variant that knows the long spelling only
IsHelpIdentifierLongOnly(flagIdentifier) == flagIdentifier = <<"h", "e", "l", "p">>

\* flagIdentifier === "h" || flagIdentifier === "help"
IsHelpIdentifier(flagIdentifier) ==
    flagIdentifier = <<"h">> \/ flagIdentifier = <<"h", "e", "l", "p">>

\* a variant that takes every identifier for a name
ResolveNameAsGiven(al, flagIdentifier) == flagIdentifier

\* this.aliases.get(flagIdentifier) || flagIdentifier
ResolveName(al, flagIdentifier) ==
    IF MapHas(al, flagIdentifier) /\ Truthy(al[flagIdentifier])
    THEN al[flagIdentifier]
    ELSE flagIdentifier

\* a variant that takes any next token for a value
NextIsNoValueWhenNone(queue) == Len(queue) = 0

\* the test guarding the shift of the next token as the value
NextIsNoValue(queue) == Len(queue) = 0 \/ StartsWith(queue[1], <<"-">>)

\* a variant that prefers a next token that can be a value to the inline one
ValueToSetNextFirst(valueFromEqualsSyntax, queue) ==
    IF Len(queue) > 0 /\ ~StartsWith(queue[1], <<"-">>)
    THEN [value |-> queue[1], queue |-> Tail(queue)]
    ELSE [value |-> valueFromEqualsSyntax, queue |-> queue]

\* a variant that reads the next token as the value and leaves it queued
ValueToSetLeavesQueue(valueFromEqualsSyntax, queue) ==
    IF valueFromEqualsSyntax # Undef
    THEN [value |-> valueFromEqualsSyntax, queue |-> queue]
    ELSE [value |-> queue[1], queue |-> queue]

\* the value a flag that expects one is given: the inline one when there is
\* one, else the next token of the queue
ValueToSet(valueFromEqualsSyntax, queue) ==
    IF valueFromEqualsSyntax # Undef
    THEN [value |-> valueFromEqualsSyntax, queue |-> queue]
    ELSE [value |-> queue[1], queue |-> Tail(queue)]

\* a variant without the catch: the error of set() leaves _parseOne as it is
RethrowAsThrown(fl, flag, valueFromEqualsSyntax, r, queue) ==
    Thrown("FlagParseError", fl, queue, r.message, Undef, r.offendingValue)

\* the catch of _parseOne: every error r thrown in the try block is rethrown
\* as FlagParseError(e.message, flag.name, e.offendingValue ?? valueFromEqualsSyntax)
Rethrow(fl, flag, valueFromEqualsSyntax, r, queue) ==
    Thrown("FlagParseError", fl, queue, r.message, flag.name,
           IF r.offendingValue # Undef THEN r.offendingValue ELSE valueFromEqualsSyntax)

\* the end of the try block after a _setValueFromString / _setImplicitly that gave r
Applied(fl, flag, valueFromEqualsSyntax, r, queue) ==
    IF r.ok
    THEN Returned("FLAG_CONSUMED_AND_PROCESSED", MapSet(fl, flag.name, r.flag), queue)
    ELSE Rethrow(MapSet(fl, flag.name, r.flag), flag, valueFromEqualsSyntax, r, queue)

\* flag._setValueFromString(valueToSet) with the queue the value left behind
ApplyValue(fl, flag, valueFromEqualsSyntax, v) ==
    Applied(fl, flag, valueFromEqualsSyntax, SetValueFromString(flag, v.value), v.queue)

\* the try block of _parseOne for the resolved flag
ApplyToFlag(fl, flag, valueFromEqualsSyntax, queue) ==
    IF ExpectsExplicitValue(flag.type)
    THEN IF valueFromEqualsSyntax = Undef /\ NextIsNoValue(queue)
         THEN Rethrow(fl, flag, valueFromEqualsSyntax,
                      [message |-> "requires a value", offendingValue |-> Undef], queue)
         ELSE ApplyValue(fl, flag, valueFromEqualsSyntax,
                         ValueToSet(valueFromEqualsSyntax, queue))
    ELSE IF valueFromEqualsSyntax # Undef
         THEN Applied(fl, flag, valueFromEqualsSyntax,
                      SetValueFromString(flag, valueFromEqualsSyntax), queue)
         ELSE Applied(fl, flag, valueFromEqualsSyntax, SetImplicitly(flag), queue)

\* a variant that steps over an identifier nothing is registered under
ApplyResolvedSkipsUnknown(fl, flagIdentifier, resolvedFlagName, valueFromEqualsSyntax, queue) ==
    IF ~MapHas(fl, resolvedFlagName)
    THEN Returned("FLAG_CONSUMED_AND_PROCESSED", fl, queue)
    ELSE ApplyToFlag(fl, fl[resolvedFlagName], valueFromEqualsSyntax, queue)

\* the lookup of the resolved name and what follows it
ApplyResolved(fl, flagIdentifier, resolvedFlagName, valueFromEqualsSyntax, queue) ==
    IF ~MapHas(fl, resolvedFlagName)
    THEN Thrown("FlagParseError", fl, queue, "Unknown flag", flagIdentifier, Undef)
    ELSE ApplyToFlag(fl, fl[resolvedFlagName], valueFromEqualsSyntax, queue)

\* a variant that looks the identifier up before it tests it for the help request
ParseIdentifiedResolvesFirst(fl, al, arg, flagIdentifier, valueFromEqualsSyntax, queue) ==
    IF Len(flagIdentifier) = 0 \/ StartsWith(flagIdentifier, <<"-">>)
    THEN Thrown("FlagParseError", fl, queue, "Invalid flag identifier syntax", arg, Undef)
    ELSE IF IsHelpIdentifier(flagIdentifier)
            /\ ~MapHas(fl, ResolveName(al, flagIdentifier))
    THEN Thrown("HelpRequestError", fl, queue, "Help requested by user", Undef, Undef)
    ELSE ApplyResolved(fl, flagIdentifier, ResolveName(al, flagIdentifier),
                       valueFromEqualsSyntax, queue)

\* _parseOne from the check of the identifier on
ParseIdentified(fl, al, arg, flagIdentifier, valueFromEqualsSyntax, queue) ==
    IF Len(flagIdentifier) = 0 \/ StartsWith(flagIdentifier, <<"-">>)
    THEN Thrown("FlagParseError", fl, queue, "Invalid flag identifier syntax", arg, Undef)
    ELSE IF IsHelpIdentifier(flagIdentifier)
    THEN Thrown("HelpRequestError", fl, queue, "Help requested by user", Undef, Undef)
    ELSE ApplyResolved(fl, flagIdentifier, ResolveName(al, flagIdentifier),
                       valueFromEqualsSyntax, queue)

\* the split of the stripped token at its first "="
SplitAtEquals(fl, al, arg, stripped, equalsIndex, queue) ==
    IF equalsIndex # -1
    THEN ParseIdentified(fl, al, arg, SubstringTo(stripped, 0, equalsIndex),
                         Substring(stripped, equalsIndex + 1), queue)
    ELSE ParseIdentified(fl, al, arg, stripped, Undef, queue)

\* arg.startsWith("--") ? arg.substring(2) : arg.substring(1)
StripDashes(arg) ==
    IF StartsWith(arg, <<"-", "-">>) THEN Substring(arg, 2) ELSE Substring(arg, 1)

\* _parseOne for a flag token arg, already shifted off the queue
ParseFlagToken(fl, al, arg, stripped, queue) ==
    SplitAtEquals(fl, al, arg, stripped, IndexOf(stripped, "="), queue)

\* a variant that steps over a token that is no flag
ParseOneSkipsNonFlag(fl, al, queue) ==
    IF queue[1] = Terminator
    THEN Returned("TERMINATOR_CONSUMED", fl, Tail(queue))
    ELSE IF ~StartsWith(queue[1], <<"-">>) \/ queue[1] = <<"-">>
    THEN Returned("FLAG_CONSUMED_AND_PROCESSED", fl, Tail(queue))
    ELSE ParseFlagToken(fl, al, queue[1], StripDashes(queue[1]), Tail(queue))

\* this._parseOne() on the queue this._processingArgs (not empty)
ParseOne(fl, al, queue) ==
    IF queue[1] = Terminator
    THEN Returned("TERMINATOR_CONSUMED", fl, Tail(queue))
    ELSE IF ~StartsWith(queue[1], <<"-">>) \/ queue[1] = <<"-">>
    THEN Returned("NOT_A_FLAG_ENCOUNTERED", fl, queue)
    ELSE ParseFlagToken(fl, al, queue[1], StripDashes(queue[1]), Tail(queue))

\* a variant whose loop goes on after the terminator
QueueAfterTerminatorGoesOn(outcome, queue) ==
    IF outcome = "NOT_A_FLAG_ENCOUNTERED" THEN <<>> ELSE queue

\* the switch of parse's loop: what is left of the queue after an outcome
QueueAfter(outcome, queue) ==
    IF outcome = "FLAG_CONSUMED_AND_PROCESSED" THEN queue ELSE <<>>

\* the try block of parse: the loop over the queue.  heads lists, for each
\* call of _parseOne, the place in the token sequence (of n tokens) of the
\* token then at the front of the queue.
RECURSIVE ParseLoop(_, _, _, _, _)
LoopAfter(one, al, n, reached) ==
    IF IsThrow(one.outcome) THEN one @@ [heads |-> reached]
    ELSE ParseLoop(one.flags, al, QueueAfter(one.outcome, one.queue), n, reached)

ParseLoop(fl, al, queue, n, heads) ==
    IF Len(queue) = 0
    THEN Returned("Completed", fl, queue) @@ [heads |-> heads]
    ELSE LoopAfter(ParseOne(fl, al, queue), al, n, Append(heads, n - Len(queue) + 1))

\* a variant without line 393: only a normal end records the call
IsParsedAfterNormalEnd(outcome) == ~IsThrow(outcome)

\* a variant whose catch does not record the call when the error is the help signal
IsParsedAfterUnlessHelp(outcome) == outcome # "HelpRequestError"

\* this._isParsed after the try block: line 393 in the catch (every error,
\* the help signal included), line 398 after a normal end
IsParsedAfter(outcome) == IF IsThrow(outcome) THEN TRUE ELSE TRUE

\* what parse leaves behind once its loop gave run
Parsed(run, before) ==
    [flags |-> run.flags,
     isParsed |-> IsParsedAfter(run.outcome),
     last |-> [op |-> "parse",
               outcome |-> run.outcome,
               message |-> run.message,
               flagName |-> run.flagName,
               offendingValue |-> run.offendingValue,
               heads |-> run.heads,
               decl |-> NoDecl,
               before |-> before,
               sink |-> <<>>,
               exit |-> <<>>]]

\* if (this._isParsed) this.reset()
ResetIfParsed(fl, parsed) == IF parsed THEN ResetAll(fl) ELSE fl

\* flagSet.parse(tokens) on a registry in state (fl, al, parsed)
ParseFrom(fl, al, parsed, tokens) ==
    Parsed(ParseLoop(ResetIfParsed(fl, parsed), al, tokens, Len(tokens), <<>>),
           Snapshot(fl, al, parsed))

\* flagSet.parse(): the tokens are the argument provider's
Parse ==
    /\ flags' = ParseFrom(flags, aliases, isParsed, argv).flags
    /\ isParsed' = ParseFrom(flags, aliases, isParsed, argv).isParsed
    /\ processingArgs' = <<>>
    /\ last' = ParseFrom(flags, aliases, isParsed, argv).last
    /\ UNCHANGED <<aliases, argv>>

(***************************************************************************)
(* The top-level parse function on the default registry.  process is the   *)
(* node:process module the file imports, so process.exit is there and ends *)
(* the program.                                                            *)
(***************************************************************************)
\* writer.error(e.message)
ErrorWrite(message) == [to |-> "error", text |-> message]

\* defaultFlagSet.printHelp(): this.outputWriter.log(this.generateHelp())
HelpWrite == [to |-> "log", text |-> "help"]

\* the exit codes given to process.exit
ExitSuccess == <<0>>

ExitFailure == <<1>>

\* a variant of the catch that prints the help before the error message
CaughtHelpFirst(outcome, message) ==
    IF outcome = "HelpRequestError"
    THEN [sink |-> <<HelpWrite>>, exit |-> ExitSuccess]
    ELSE IF outcome = "FlagParseError"
    THEN [sink |-> <<HelpWrite, ErrorWrite(message)>>, exit |-> ExitFailure]
    ELSE [sink |-> <<>>, exit |-> <<>>]

\* the catch block of the top-level parse: what is written and the exit code
Caught(outcome, message) ==
    IF outcome = "HelpRequestError"
    THEN [sink |-> <<HelpWrite>>, exit |-> ExitSuccess]
    ELSE IF outcome = "FlagParseError"
    THEN [sink |-> <<ErrorWrite(message), HelpWrite>>, exit |-> ExitFailure]
    ELSE [sink |-> <<>>, exit |-> <<>>]

\* what the top-level parse adds to the record of defaultFlagSet.parse
EntryRecord(parsed, caught) ==
    [parsed EXCEPT !.op = "entry", !.sink = caught.sink, !.exit = caught.exit]

EntryOf(parsed) == EntryRecord(parsed, Caught(parsed.outcome, parsed.message))

\* parse(): the top-level function, on the tokens of the argument provider
TopLevelParse ==
    /\ flags' = ParseFrom(flags, aliases, isParsed, argv).flags
    /\ isParsed' = ParseFrom(flags, aliases, isParsed, argv).isParsed
    /\ processingArgs' = <<>>
    /\ last' = EntryOf(ParseFrom(flags, aliases, isParsed, argv).last)
    /\ UNCHANGED <<aliases, argv>>

(***************************************************************************)
(* The argument provider (IArgumentProvider): the caller composes the      *)
(* token sequence a later parse() reads through getArguments().            *)
(***************************************************************************)
NewArguments ==
    /\ argv' = <<>>
    /\ last' = Called("arguments", "ok", NoSnapshot)
    /\ UNCHANGED <<flags, aliases, isParsed, processingArgs>>

PushArgument(token) ==
    /\ last.op # "parse"
    /\ Len(argv) < MaxArgs
    /\ argv' = Append(argv, token)
    /\ last' = Called("arguments", "ok", NoSnapshot)
    /\ UNCHANGED <<flags, aliases, isParsed, processingArgs>>

(***************************************************************************)
(* The declarations and tokens the model draws its inputs from.            *)
(***************************************************************************)
Decl(type, name, alias) ==
    [type |-> type, name |-> name, alias |-> alias, given |-> FALSE,
     defaultValue |-> NoValue]

DeclWith(type, name, alias, defaultValue) ==
    [type |-> type, name |-> name, alias |-> alias, given |-> TRUE,
     defaultValue |-> defaultValue]

\* Spec: a boolean, a flag cf of one of the three types that expect a value,
\* a string flag aliased h and a flag named help (aliased p)
ParseDecls ==
    { Decl("boolean", <<"v", "b">>, <<"v">>),
      DeclWith("string", <<"c", "f">>, <<"c">>, StrV(<<"d">>)),
      Decl("number", <<"c", "f">>, <<"c">>),
      DeclWith("string[]", <<"c", "f">>, <<"c">>, ListV(<< <<"a">> >>)),
      DeclWith("string", <<"h", "o">>, <<"h">>, StrV(<<"d">>)),
      Decl("boolean", <<"h", "e", "l", "p">>, <<"p">>) }

ParseTokens ==
    { <<"-", "-">>,
      <<"x">>,
      <<"8">>,
      <<"-", "h">>,
      <<"-", "-", "h", "e", "l", "p">>,
      <<"-", "h", "=", "x">>,
      <<"-", "v">>,
      <<"-", "p">>,
      <<"-", "c">>,
      <<"-", "c", "=", "x">>,
      <<"-", "-", "c", "f", "=">>,
      <<"-", "-", "v", "b", "=", "0">> }

\* SpecValues: the four types, each with two defaults
ValueDecls ==
    { Decl("boolean", <<"v", "b">>, <<"v">>),
      DeclWith("boolean", <<"v", "b">>, <<"v">>, BoolV(TRUE)),
      Decl("string", <<"c", "f">>, <<"c">>),
      DeclWith("string", <<"c", "f">>, <<"c">>, StrV(<<"d">>)),
      Decl("number", <<"p", "t">>, <<"p">>),
      DeclWith("number", <<"p", "t">>, <<"p">>, NumV(Finite(1, 15, 1))),
      Decl("string[]", <<"i", "n">>, <<"i">>),
      DeclWith("string[]", <<"i", "n">>, <<"i">>, ListV(<< <<"a">> >>)) }

ValueTokens ==
    { <<"-", "-", "v", "b">>,
      <<"-", "v", "=", "0">>,
      <<"-", "-", "c", "f", "=", "x">>,
      <<"-", "-", "p", "t", "=", "8">>,
      <<"-", "p", "=", "z">>,
      <<"-", "-", "i", "n", "=", "b">>,
      <<"-", "h">> }

\* SpecDecl: every declaration method on colliding names and aliases
DeclNames == { <<"v">>, <<"c">>, <<"v", "b">> }

DeclAliases == { Undef, <<>>, <<"v">>, <<"c">>, <<"-">>, <<"v", "b">> }

RegistryDecls ==
    { Decl(t, n, a) : t \in TypeNames, n \in DeclNames, a \in DeclAliases }

RegistryTokens == { <<"-", "v">>, <<"x">> }

\* SpecList: a string-list flag, without and with a default, next to a
\* boolean, and the three forms that give it a value
ListDecls ==
    { Decl("string[]", <<"i", "n">>, <<"i">>),
      DeclWith("string[]", <<"i", "n">>, <<"i">>, ListV(<< <<"a">> >>)),
      Decl("boolean", <<"v", "b">>, <<"v">>) }

ListTokens ==
    { <<"-", "-", "i", "n">>,
      <<"-", "i">>,
      <<"-", "-", "i", "n", "=", "c">>,
      <<"-", "i", "=", "b">>,
      <<"-", "v">>,
      <<"a">>,
      <<"b">> }

\* SpecStop: tokens that are no flags ("-" and a word) among flags that are
\* declared, unknown, malformed or the help request
StopDecls ==
    { Decl("boolean", <<"v", "b">>, <<"v">>),
      DeclWith("string", <<"c", "f">>, <<"c">>, StrV(<<"d">>)) }

StopTokens ==
    { <<"-">>,
      <<"x">>,
      <<"-", "v">>,
      <<"-", "c">>,
      <<"-", "u">>,
      <<"-", "=", "x">>,
      <<"-", "h">> }

\* SpecEntry: a boolean and a number flag, and tokens that make the parse
\* complete, fail (unknown flag, missing value, bad number) or ask for help
EntryDecls ==
    { Decl("boolean", <<"v", "b">>, <<"v">>),
      Decl("number", <<"p", "t">>, <<"p">>) }

EntryTokens ==
    { <<"-", "v">>,
      <<"-", "p">>,
      <<"-", "u">>,
      <<"-", "-", "h", "e", "l", "p">>,
      <<"z">>,
      <<"0">> }

\* SpecCoerce: the two types whose set() can throw, with literals that
\* coerce and literals that do not, inline and as the following token
CoerceDecls ==
    { Decl("boolean", <<"v", "b">>, <<"v">>),
      DeclWith("boolean", <<"v", "b">>, <<"v">>, BoolV(TRUE)),
      Decl("number", <<"p", "t">>, <<"p">>),
      DeclWith("number", <<"p", "t">>, <<"p">>, NumV(Finite(1, 15, 1))) }

CoerceTokens ==
    { <<"-", "v">>,
      <<"-", "v", "=", "z">>,
      <<"-", "-", "v", "b", "=", "0">>,
      <<"-", "p">>,
      <<"-", "p", "=", "z">>,
      <<"z">>,
      <<"0">> }

\* SpecResolve: a flag with an alias, a flag without one and a flag whose
\* alias is its own name, asked for by alias, by name and by identifiers
\* nothing is registered under, without and with an inline value
ResolveDecls ==
    { Decl("boolean", <<"v", "b">>, <<"v">>),
      DeclWith("string", <<"c">>, Undef, StrV(<<"d">>)),
      Decl("boolean", <<"w">>, <<"w">>) }

ResolveTokens ==
    { <<"-", "v">>,
      <<"-", "-", "v", "b">>,
      <<"-", "c", "=", "x">>,
      <<"-", "w">>,
      <<"-", "-", "w", "=", "x">>,
      <<"-", "u">> }

\* SpecHelp: a flag named h, a flag named help with another alias and a
\* flag aliased h, asked for by every one of their identifiers
HelpDecls ==
    { Decl("boolean", <<"h">>, Undef),
      Decl("boolean", <<"h", "e", "l", "p">>, <<"p">>),
      DeclWith("string", <<"h", "o">>, <<"h">>, StrV(<<"d">>)) }

HelpTokens ==
    { <<"-", "h">>,
      <<"-", "-", "h", "=", "1">>,
      <<"-", "-", "h", "e", "l", "p">>,
      <<"-", "-", "h", "e", "l", "p", "=", "1">>,
      <<"-", "p">>,
      <<"-", "-", "h", "o", "=", "x">>,
      <<"-", "h", "=", "x">> }

\* SpecNumber: a number flag, without and with a default, given strings
\* that are a number, begin with one, or hold none
NumberDecls ==
    { Decl("number", <<"p", "t">>, <<"p">>),
      DeclWith("number", <<"p", "t">>, <<"p">>, NumV(Finite(1, 15, 1))) }

NumberTokens ==
    { <<"-", "p">>,
      <<"1", "z">>,
      <<"-", "p", "=", "8">>,
      <<"-", "-", "p", "t", "=", ".", "5">>,
      <<"-", "p", "=", "1", "z">>,
      <<"-", "p", "=", "z">>,
      <<"-", "-", "p", "t", "=">>,
      <<"-", "p", "=", "N", "a", "N">> }

(***************************************************************************)
(* The specifications: one next-state relation over nine input domains,    *)
(* and                                                                     *)
(* the program that calls the top-level parse function.                    *)
(***************************************************************************)
Init ==
    /\ flags = EmptyMap
    /\ aliases = EmptyMap
    /\ isParsed = FALSE
    /\ processingArgs = <<>>
    /\ argv = <<>>
    /\ last = Called("new", "ok", NoSnapshot)

NextOver(decls, tokens) ==
    \/ \E d \in decls : Declare(d)
    \/ Reset
    \/ NewArguments
    \/ \E token \in tokens : PushArgument(token)
    \/ Parse

Next == NextOver(ParseDecls, ParseTokens)

Spec == Init /\ [][Next]_vars

NextValues == NextOver(ValueDecls, ValueTokens)

SpecValues == Init /\ [][NextValues]_vars

NextDecl == NextOver(RegistryDecls, RegistryTokens)

SpecDecl == Init /\ [][NextDecl]_vars

NextCoerce == NextOver(CoerceDecls, CoerceTokens)

SpecCoerce == Init /\ [][NextCoerce]_vars

NextList == NextOver(ListDecls, ListTokens)

SpecList == Init /\ [][NextList]_vars

NextStop == NextOver(StopDecls, StopTokens)

SpecStop == Init /\ [][NextStop]_vars

NextHelp == NextOver(HelpDecls, HelpTokens)

SpecHelp == Init /\ [][NextHelp]_vars

NextNumber == NextOver(NumberDecls, NumberTokens)

SpecNumber == Init /\ [][NextNumber]_vars

NextResolve == NextOver(ResolveDecls, ResolveTokens)

SpecResolve == Init /\ [][NextResolve]_vars

\* the program runs until process.exit is called
Running == last.exit = <<>>

NextEntry ==
    \/ Running /\ NextOver(EntryDecls, EntryTokens)
    \/ Running /\ TopLevelParse

SpecEntry == Init /\ [][NextEntry]_vars

(***************************************************************************)
(* Properties.  The registry a call found is last.before; the tokens the   *)
(* latest parse was given are argv.                                        *)
(***************************************************************************)
LastParse == last.op = "parse"

\* the declarations of fl on a registry nothing was parsed into yet: every
\* flag holds the default it was constructed with and is not set
Fresh(fl) ==
    [n \in DOMAIN fl |->
        [fl[n] EXCEPT !.currentValue = fl[n].defaultValue, !.isSet = FALSE]]

\* what parse(tokens) gives on the registry the latest call found
FromBefore(tokens) ==
    ParseFrom(last.before.flags, last.before.aliases, last.before.isParsed, tokens)

\* C1: after a parse on a registry that was already parsed, every flag has
\* the value and the isSet a parse of the same tokens gives on a freshly
\* built registry with the same declarations: nothing of the earlier parse
\* is carried over.
C1_NoCarryOver ==
    (LastParse /\ last.before.isParsed) =>
        \A n \in DOMAIN flags :
            /\ flags[n].currentValue =
                   ParseFrom(Fresh(flags), aliases, FALSE, argv).flags[n].currentValue
            /\ flags[n].isSet =
                   ParseFrom(Fresh(flags), aliases, FALSE, argv).flags[n].isSet

\* C2: after reset() every flag holds exactly the default it was declared
\* with (the type's zero value when none was given) and is not set.
C2_ResetRestoresDefault ==
    last.op = "reset" =>
        \A n \in DOMAIN flags :
            /\ flags[n].currentValue = flags[n].defaultValue
            /\ ~flags[n].isSet

(***************************************************************************)
(* Tokens as the user spells them.                                         *)
(***************************************************************************)
\* token is a flag token for the identifier id: one or two dashes, id, and
\* then nothing or "=" and an inline value
Spells(token, id) ==
    \E dashes \in {<<"-">>, <<"-", "-">>} :
        \/ token = dashes \o id
        \/ StartsWith(token, dashes \o id \o <<"=">>)

IsHelpToken(token) == Spells(token, <<"h">>) \/ Spells(token, <<"h", "e", "l", "p">>)

\* the place in argv of the token the latest parse looked at last
LastHead == last.heads[Len(last.heads)]

HelpRaised == LastParse /\ last.outcome = "HelpRequestError"

\* C3 as stated: a help token at any position of the token sequence makes
\* parse raise the help signal.
C3_HelpAtAnyPosition ==
    (LastParse /\ \E k \in DOMAIN argv : IsHelpToken(argv[k])) =>
        last.outcome = "HelpRequestError"

\* C3: parse raises the help signal exactly at the first help token it
\* reaches (a token is reached when _parseOne is called with it at the front
\* of the queue; the first token always is), whatever tokens follow it and
\* whatever flags are declared, a flag aliased h or named help included.
C3_HelpWhenReached ==
    LastParse =>
        /\ \A i \in DOMAIN last.heads :
               IsHelpToken(argv[last.heads[i]]) =>
                   (last.outcome = "HelpRequestError" /\ i = Len(last.heads))
        /\ (Len(argv) > 0 /\ IsHelpToken(argv[1])) => last.outcome = "HelpRequestError"
        /\ last.outcome = "HelpRequestError" =>
               (last.heads # <<>> /\ IsHelpToken(argv[LastHead]))

\* a help token reached after an applied flag, with a token after it, on a
\* registry that declares the alias h
C3_Witness ==
    /\ HelpRaised
    /\ Len(last.heads) >= 2
    /\ LastHead < Len(argv)
    /\ MapHas(aliases, <<"h">>)
    /\ \E n \in DOMAIN flags : flags[n].isSet

\* the declaration of a flag: all of it but the value held and isSet
Declaration(flag) ==
    [name |-> flag.name, alias |-> flag.alias, type |-> flag.type,
     defaultValue |-> flag.defaultValue,
     initialDefaultValueString |-> flag.initialDefaultValueString]

\* some token of argv before place k spells the flag by its name or alias
SpelledBefore(flag, k) ==
    \E i \in 1..(k - 1) :
        \/ Spells(argv[i], flag.name)
        \/ flag.alias # Undef /\ Spells(argv[i], flag.alias)

\* C4 as stated: a parse that ends with the help signal leaves isParsed as
\* the call found it.
C4_HelpKeepsIsParsed == HelpRaised => isParsed = last.before.isParsed

\* C4: a parse that ends with the help signal changes no declaration and no
\* alias; the flags are those the tokens before the help token give, and a
\* flag no earlier token spells is as the call found it (as the reset of
\* an already parsed registry left it); isParsed is true afterwards.
C4_HelpRecordsTheCall ==
    HelpRaised =>
        /\ isParsed
        /\ aliases = last.before.aliases
        /\ DOMAIN flags = DOMAIN last.before.flags
        /\ flags = FromBefore(SubSeq(argv, 1, LastHead - 1)).flags
        /\ \A n \in DOMAIN flags :
               /\ Declaration(flags[n]) = Declaration(last.before.flags[n])
               /\ ~SpelledBefore(flags[n], LastHead) =>
                      flags[n] = ResetIfParsed(last.before.flags, last.before.isParsed)[n]

\* the help signal on a registry never parsed before, after a flag was applied
C4_Witness ==
    /\ HelpRaised
    /\ ~last.before.isParsed
    /\ isParsed
    /\ \E n \in DOMAIN flags : flags[n].isSet
    /\ \E n \in DOMAIN flags : ~flags[n].isSet

(***************************************************************************)
(* Declarations.                                                           *)
(***************************************************************************)
\* the names and the aliases registered in fl, read off the flags themselves
NamesOf(fl) == {fl[n].name : n \in DOMAIN fl}

AliasesOf(fl) == {fl[n].alias : n \in DOMAIN fl} \ {Undef}

\* C5: in every registry state the registered names together with the
\* registered aliases hold no string twice: no two flags share a name or an
\* alias, and no alias equals a flag name, its own flag's name included.
C5_NoDuplicates ==
    /\ \A n \in DOMAIN flags : flags[n].name = n
    /\ \A n1, n2 \in DOMAIN flags :
           (n1 # n2 /\ flags[n1].alias # Undef) => flags[n1].alias # flags[n2].alias
    /\ AliasesOf(flags) \cap NamesOf(flags) = {}

\* the declaration d collides with the registry fl: its name, or the alias
\* it gives, is a registered name or a registered alias
Collides(d, fl) ==
    \/ d.name \in NamesOf(fl) \cup AliasesOf(fl)
    \/ d.alias # Undef /\ d.alias \in NamesOf(fl) \cup AliasesOf(fl)

\* C6: a declaration, by any of the four methods, whose name or alias is an
\* already registered name or alias raises FlagDefinitionError and
\* registers nothing.
C6_CollisionRaises ==
    (last.op = "declare" /\ Collides(last.decl, last.before.flags)) =>
        /\ last.outcome = "FlagDefinitionError"
        /\ flags = last.before.flags
        /\ aliases = last.before.aliases

\* stringList(name) refused because the name is the alias of a registered flag
C6_Witness ==
    /\ last.op = "declare"
    /\ last.outcome = "FlagDefinitionError"
    /\ last.decl.type = "string[]"
    /\ last.decl.alias = Undef
    /\ last.decl.name \in AliasesOf(flags)
    /\ last.decl.name \notin NamesOf(flags)

(***************************************************************************)
(* The token sequence of the latest parse.                                 *)
(***************************************************************************)
\* the places of argv where _parseOne was called
Reached == {last.heads[i] : i \in DOMAIN last.heads}

\* the tokens of argv before place k
Before(k) == SubSeq(argv, 1, k - 1)

\* the place of the first "--" of argv, 0 when there is none
FirstTerminator ==
    IF \E k \in DOMAIN argv : argv[k] = Terminator
    THEN CHOOSE k \in DOMAIN argv :
             argv[k] = Terminator /\ \A j \in 1..(k - 1) : argv[j] # Terminator
    ELSE 0

\* C7: with a "--" among the tokens, parse gives every flag the value and
\* isSet, and ends with the outcome, that parsing only the tokens before the
\* first "--" gives; no token after it is looked at, and when parse gets to
\* the "--" it completes without error.
C7_TerminatorHalts ==
    (LastParse /\ FirstTerminator > 0) =>
        /\ flags = FromBefore(Before(FirstTerminator)).flags
        /\ last.outcome = FromBefore(Before(FirstTerminator)).last.outcome
        /\ \A k \in Reached : k <= FirstTerminator
        /\ FirstTerminator \in Reached => last.outcome = "Completed"

\* parse got to a "--" after setting a flag, and the token after the "--"
\* spells the alias of a declared flag that stays unset
C7_Witness ==
    /\ LastParse
    /\ FirstTerminator \in Reached
    /\ FirstTerminator < Len(argv)
    /\ \E n \in DOMAIN flags : flags[n].isSet
    /\ \E n \in DOMAIN flags :
           /\ flags[n].alias # Undef
           /\ Spells(argv[FirstTerminator + 1], flags[n].alias)
           /\ ~flags[n].isSet

\* the token at place k is the alias form of flag: -a or -a=value
AliasFormAt(k, flag) ==
    /\ flag.alias # Undef
    /\ \/ argv[k] = <<"-">> \o flag.alias
       \/ StartsWith(argv[k], <<"-">> \o flag.alias \o <<"=">>)

\* argv with the alias form at place k respelled with the flag's full name
\* after dashes, the rest of the token kept
Respelled(k, flag, dashes) ==
    [argv EXCEPT ![k] = dashes \o flag.name \o Substring(argv[k], 2)]

\* the latest parse left what parse(tokens) leaves on the registry it found
SameAsParsing(tokens) ==
    /\ flags = FromBefore(tokens).flags
    /\ isParsed = FromBefore(tokens).isParsed
    /\ last = FromBefore(tokens).last

\* C8 as stated: respelling the alias form of any flag with the long form
\* or the single-dash full-name form changes neither outcome nor flags.
C8_AliasSameAsName ==
    LastParse =>
        \A k \in DOMAIN argv : \A n \in DOMAIN flags :
            AliasFormAt(k, flags[n]) =>
                /\ SameAsParsing(Respelled(k, flags[n], <<"-", "-">>))
                /\ SameAsParsing(Respelled(k, flags[n], <<"-">>))

\* the flag can be asked for by its alias and by its name: neither is an
\* identifier of the help request
NotHelpSpelled(flag) ==
    /\ flag.alias # <<"h">>
    /\ flag.name \notin {<<"h">>, <<"h", "e", "l", "p">>}

\* C8: for a flag whose alias is not h and whose name is not h or help,
\* respelling its alias form with the long form or the single-dash
\* full-name form changes neither the outcome nor any flag.
C8_AliasSameAsNameUnlessHelp ==
    LastParse =>
        \A k \in DOMAIN argv : \A n \in DOMAIN flags :
            (AliasFormAt(k, flags[n]) /\ NotHelpSpelled(flags[n])) =>
                /\ SameAsParsing(Respelled(k, flags[n], <<"-", "-">>))
                /\ SameAsParsing(Respelled(k, flags[n], <<"-">>))

\* a completed parse that took the token after an alias form as its value
C8_Witness ==
    /\ LastParse
    /\ last.outcome = "Completed"
    /\ \E k \in Reached : \E n \in DOMAIN flags :
           /\ AliasFormAt(k, flags[n])
           /\ NotHelpSpelled(flags[n])
           /\ flags[n].isSet
           /\ k < Len(argv)
           /\ (k + 1) \notin Reached

(***************************************************************************)
(* Values: the token after a flag, and the inline value.                   *)
(***************************************************************************)
\* token asks for flag by name or alias, after one or two dashes, and
\* carries no inline value
BareTokenOf(token, flag) ==
    /\ ~IsHelpToken(token)
    /\ \E dashes \in {<<"-">>, <<"-", "-">>} :
           \/ token = dashes \o flag.name
           \/ flag.alias # Undef /\ token = dashes \o flag.alias

\* token asks for flag by name or alias and carries an inline value
InlineTokenOf(token, flag) ==
    /\ ~IsHelpToken(token)
    /\ \E dashes \in {<<"-">>, <<"-", "-">>} :
           \/ StartsWith(token, dashes \o flag.name \o <<"=">>)
           \/ flag.alias # Undef /\ StartsWith(token, dashes \o flag.alias \o <<"=">>)

\* what follows the first "=" of token
InlineValue(token) == Substring(token, IndexOf(token, "=") + 1)

\* the flag named n as parse finds it when it gets to place k
FlagAt(n, k) == FromBefore(Before(k)).flags[n]

\* parse failed at place k for the flag named n, and has left every flag as
\* it was when it got there
FailedAt(k, n, message, offendingValue) ==
    /\ LastHead = k
    /\ last.outcome = "FlagParseError"
    /\ last.message = message
    /\ last.flagName = n
    /\ last.offendingValue = offendingValue
    /\ flags = FromBefore(Before(k)).flags

\* the step at place k has given the flag named n the value str: the flag
\* holds what set(str) makes of it and is set, or, when set(str) throws,
\* parse has failed there with that error
AppliedAt(k, n, str, through) ==
    IF SetValueFromString(FlagAt(n, k), str).ok
    THEN FromBefore(SubSeq(argv, 1, through)).flags[n] =
             SetValueFromString(FlagAt(n, k), str).flag
    ELSE FailedAt(k, n, SetValueFromString(FlagAt(n, k), str).message, str)

\* C9: when parse gets to a token that asks, without inline value, for a
\* flag that expects a value: if a next token exists and does not start
\* with "-", that token is consumed as the value; otherwise parse fails
\* with "requires a value" naming the flag, the next token is not
\* consumed, and no flag has changed.
C9_RequiresAValue ==
    LastParse =>
        \A k \in Reached : \A n \in DOMAIN flags :
            (flags[n].type # "boolean" /\ BareTokenOf(argv[k], flags[n])) =>
                IF k < Len(argv) /\ ~StartsWith(argv[k + 1], <<"-">>)
                THEN /\ (k + 1) \notin Reached
                     /\ AppliedAt(k, n, argv[k + 1], k + 1)
                ELSE FailedAt(k, n, "requires a value", Undef)

\* a string-list flag asked for by its alias after another flag was set,
\* with a next token that starts with "-"
C9_Witness ==
    /\ LastParse
    /\ last.message = "requires a value"
    /\ LastHead > 1
    /\ LastHead < Len(argv)
    /\ \E n \in DOMAIN flags :
           /\ flags[n].type = "string[]"
           /\ argv[LastHead] = <<"-">> \o flags[n].alias
           /\ last.flagName = n
           /\ ~flags[n].isSet
    /\ \E n \in DOMAIN flags : flags[n].isSet

\* C10: when parse gets to a token with an inline value for a declared
\* flag, the inline value (an empty one too) is the value applied, and the
\* following token is not consumed: it is the next token parse looks at.
C10_InlineValueWins ==
    LastParse =>
        \A k \in Reached : \A n \in DOMAIN flags :
            InlineTokenOf(argv[k], flags[n]) =>
                /\ AppliedAt(k, n, InlineValue(argv[k]), k)
                /\ flags[n].type = "string" =>
                       /\ FromBefore(SubSeq(argv, 1, k)).flags[n].currentValue =
                              StrV(InlineValue(argv[k]))
                       /\ FromBefore(SubSeq(argv, 1, k)).flags[n].isSet
                /\ (k < LastHead \/ last.outcome = "Completed") =>
                       (k < Len(argv) => (k + 1) \in Reached)

\* --cf= then x: the string flag holds the empty inline value, and x is the
\* non-flag token at which parse stops
C10_Witness ==
    /\ LastParse
    /\ last.outcome = "Completed"
    /\ Len(last.heads) >= 2
    /\ ~StartsWith(argv[LastHead], <<"-">>)
    /\ \E n \in DOMAIN flags :
           /\ flags[n].type = "string"
           /\ InlineTokenOf(argv[LastHead - 1], flags[n])
           /\ InlineValue(argv[LastHead - 1]) = <<>>
           /\ flags[n].currentValue = StrV(<<>>)
           /\ flags[n].isSet

(***************************************************************************)
(* Errors.                                                                 *)
(***************************************************************************)
\* C11: when parse ends with an error or the help signal at the token of
\* place k, the tokens before k alone parse to completion, through the same
\* steps, and every flag is as that parse leaves it: the earlier tokens
\* keep their effect, the token of place k and those after it have none.
C11_AbortKeepsEarlier ==
    (LastParse /\ IsThrow(last.outcome)) =>
        /\ last.heads # <<>>
        /\ \A k \in Reached : k <= LastHead
        /\ FromBefore(Before(LastHead)).last.outcome = "Completed"
        /\ FromBefore(Before(LastHead)).last.heads =
               SubSeq(last.heads, 1, Len(last.heads) - 1)
        /\ flags = FromBefore(Before(LastHead)).flags

\* a parse error after a flag was set, before a token that asks for a
\* declared flag, which stays unset
C11_Witness ==
    /\ LastParse
    /\ last.outcome = "FlagParseError"
    /\ LastHead > 1
    /\ LastHead < Len(argv)
    /\ \E n \in DOMAIN flags : flags[n].isSet
    /\ \E n \in DOMAIN flags :
           /\ ~flags[n].isSet
           /\ \E k \in (LastHead + 1)..Len(argv) :
                  BareTokenOf(argv[k], flags[n]) \/ InlineTokenOf(argv[k], flags[n])

\* str is a literal the type can take
Coercible(type, str) ==
    CASE type = "boolean" ->
             ToLowerCase(str) \in {<<"t", "r", "u", "e">>, <<"1">>,
                                   <<"f", "a", "l", "s", "e">>, <<"0">>}
      [] type = "number"  -> ParseFloat(str).kind # "nan"
      [] OTHER            -> TRUE

CoercionMessage(type) ==
    IF type = "boolean" THEN "invalid boolean value" ELSE "invalid number"

\* the token of place k gives the flag the string str: inline, or, for a
\* flag that expects a value, as the following token
GivesAt(k, flag, str) ==
    \/ InlineTokenOf(argv[k], flag) /\ str = InlineValue(argv[k])
    \/ /\ flag.type # "boolean"
       /\ BareTokenOf(argv[k], flag)
       /\ k < Len(argv)
       /\ ~StartsWith(argv[k + 1], <<"-">>)
       /\ str = argv[k + 1]

\* C12: when parse gets to a token that gives a flag, by name or by alias,
\* a string its type cannot coerce, parse fails with a FlagParseError whose
\* flagName is the flag's name and whose offendingValue is that string;
\* and an "invalid boolean value" / "invalid number" error always carries
\* the name of a declared flag and the string that did not coerce.
C12_CoercionErrorNamesFlag ==
    LastParse =>
        /\ \A k \in Reached : \A n \in DOMAIN flags :
               \A str \in {InlineValue(argv[k])} \cup
                          (IF k < Len(argv) THEN {argv[k + 1]} ELSE {}) :
                   (GivesAt(k, flags[n], str) /\ ~Coercible(flags[n].type, str)) =>
                       FailedAt(k, n, CoercionMessage(flags[n].type), str)
        /\ last.message \in {"invalid boolean value", "invalid number"} =>
               /\ last.outcome = "FlagParseError"
               /\ last.flagName \in DOMAIN flags
               /\ last.message = CoercionMessage(flags[last.flagName].type)
               /\ GivesAt(LastHead, flags[last.flagName], last.offendingValue)
               /\ ~Coercible(flags[last.flagName].type, last.offendingValue)

\* a number flag asked for by its alias and given, as the following token,
\* a string that is no number
C12_Witness ==
    /\ LastParse
    /\ last.message = "invalid number"
    /\ LastHead < Len(argv)
    /\ last.flagName \in DOMAIN flags
    /\ argv[LastHead] = <<"-">> \o flags[last.flagName].alias
    /\ last.flagName # flags[last.flagName].alias
    /\ last.offendingValue = argv[LastHead + 1]

(***************************************************************************)
(* The registry between calls.                                             *)
(***************************************************************************)
\* C13: isParsed is false on a new registry, true after every parse that
\* completes or fails with a parse error (the empty token sequence
\* included), false after every reset(), and as it was after a declaration.
C13_IsParsedLifecycle ==
    /\ last.op = "new" => ~isParsed
    /\ (LastParse /\ last.outcome \in {"Completed", "FlagParseError"}) => isParsed
    /\ last.op = "reset" => ~isParsed
    /\ last.op = "declare" => isParsed = last.before.isParsed

\* a parse that failed on a registry never parsed before
C13_Witness ==
    /\ LastParse
    /\ last.outcome = "FlagParseError"
    /\ ~last.before.isParsed
    /\ isParsed

(***************************************************************************)
(* Values given on the command line.                                       *)
(***************************************************************************)
\* token stops the reading of flags: "--", "-", or no dash in front
StopsFlags(token) ==
    token = Terminator \/ token = <<"-">> \/ ~StartsWith(token, <<"-">>)

\* token asks, without inline value, for some flag of fl that expects a value
BareForValue(fl, token) ==
    \E m \in DOMAIN fl : fl[m].type # "boolean" /\ BareTokenOf(token, fl[m])

\* the values the tokens give the flag named n, in token order, read up to
\* the first token that stops the reading of flags: an inline value, or the
\* token following a token that asks for the flag without one
RECURSIVE GivenTo(_, _, _)
GivenTo(fl, n, tokens) ==
    IF tokens = <<>> \/ StopsFlags(tokens[1]) THEN <<>>
    ELSE IF InlineTokenOf(tokens[1], fl[n])
    THEN <<InlineValue(tokens[1])>> \o GivenTo(fl, n, Tail(tokens))
    ELSE IF BareTokenOf(tokens[1], fl[n]) /\ Len(tokens) >= 2
    THEN <<tokens[2]>> \o GivenTo(fl, n, Tail(Tail(tokens)))
    ELSE IF BareForValue(fl, tokens[1]) /\ Len(tokens) >= 2
    THEN GivenTo(fl, n, Tail(Tail(tokens)))
    ELSE GivenTo(fl, n, Tail(tokens))

\* C14: after a parse that completes, a string-list flag holds its default
\* sequence followed by every value the tokens give it, in token order,
\* whatever the form (--name v, -a v, --name=v, -a=v), and it is set exactly
\* when some value was given.
C14_ListAccumulates ==
    (LastParse /\ last.outcome = "Completed") =>
        \A n \in DOMAIN flags :
            flags[n].type = "string[]" =>
                /\ flags[n].currentValue =
                       ListV(flags[n].defaultValue.l \o GivenTo(flags, n, argv))
                /\ flags[n].isSet = (GivenTo(flags, n, argv) # <<>>)

\* a second parse on a registry whose list flag has a default, with the
\* flag given one value as the following token and one inline
C14_Witness ==
    /\ LastParse
    /\ last.outcome = "Completed"
    /\ last.before.isParsed
    /\ \E n \in DOMAIN flags :
           /\ flags[n].type = "string[]"
           /\ flags[n].defaultValue.l = << <<"a">> >>
           /\ last.before.flags[n].isSet
           /\ Len(flags[n].currentValue.l) = 3
           /\ \E k \in Reached : BareTokenOf(argv[k], flags[n])
           /\ \E k \in Reached : InlineTokenOf(argv[k], flags[n])

(***************************************************************************)
(* Boolean flags.                                                          *)
(***************************************************************************)
\* the token of place k asks for flag without inline value and is followed
\* by a token that can be a value
BareBeforeValue(k, flag) ==
    /\ BareTokenOf(argv[k], flag)
    /\ k < Len(argv)
    /\ ~StartsWith(argv[k + 1], <<"-">>)

\* C15 as stated: a boolean flag followed by a token that is a boolean
\* literal takes that token as its value.
C15_BooleanTakesFollowing ==
    LastParse =>
        \A k \in Reached : \A n \in DOMAIN flags :
            (/\ flags[n].type = "boolean"
             /\ BareBeforeValue(k, flags[n])
             /\ Coercible("boolean", argv[k + 1])) =>
                flags[n].currentValue =
                    SetValueFromString(FlagAt(n, k), argv[k + 1]).flag.currentValue

\* C15: a boolean flag asked for without inline value becomes true and
\* set, and the token that follows is not consumed: it is the next token
\* parse looks at.  Asked for with an inline value, it takes the coerced
\* inline value: true for true / 1, false for false / 0, in any case.
C15_BooleanBareOrInline ==
    LastParse =>
        \A k \in Reached : \A n \in DOMAIN flags :
            flags[n].type = "boolean" =>
                /\ BareTokenOf(argv[k], flags[n]) =>
                       /\ FromBefore(SubSeq(argv, 1, k)).flags[n].currentValue = BoolV(TRUE)
                       /\ FromBefore(SubSeq(argv, 1, k)).flags[n].isSet
                       /\ k < Len(argv) => (k + 1) \in Reached
                /\ (/\ InlineTokenOf(argv[k], flags[n])
                    /\ Coercible("boolean", InlineValue(argv[k]))) =>
                       /\ FromBefore(SubSeq(argv, 1, k)).flags[n].currentValue =
                              BoolV(ToLowerCase(InlineValue(argv[k])) \in
                                        {TrueLiteral, <<"1">>})
                       /\ FromBefore(SubSeq(argv, 1, k)).flags[n].isSet
                       /\ k < Len(argv) => (k + 1) \in Reached

\* -v then 0: the flag is true and 0 is the non-flag token parse stops at
C15_Witness ==
    /\ LastParse
    /\ last.outcome = "Completed"
    /\ \E n \in DOMAIN flags :
           /\ flags[n].type = "boolean"
           /\ Len(last.heads) >= 2
           /\ BareBeforeValue(LastHead - 1, flags[n])
           /\ argv[LastHead] = <<"0">>
           /\ flags[n].currentValue = BoolV(TRUE)
           /\ flags[n].isSet

(***************************************************************************)
(* Tokens that are no flags.                                               *)
(***************************************************************************)
\* token is "-" or has no dash in front
IsNonFlag(token) == token = <<"-">> \/ ~StartsWith(token, <<"-">>)

\* C16: when parse gets to a token that is "-" or has no dash in front, it
\* stops there without error: the parse completes with isParsed true, and
\* every flag is as the tokens before left it, whatever tokens follow; a
\* flag that no earlier token asks for is not set.
C16_NonFlagStops ==
    LastParse =>
        \A k \in Reached :
            IsNonFlag(argv[k]) =>
                /\ last.outcome = "Completed"
                /\ LastHead = k
                /\ isParsed
                /\ flags = FromBefore(Before(k)).flags
                /\ \A n \in DOMAIN flags :
                       ~SpelledBefore(flags[n], k) => ~flags[n].isSet

\* parse stopped at "-" after setting a flag, with the help request or a
\* malformed or unknown flag after it
C16_Witness ==
    /\ LastParse
    /\ last.outcome = "Completed"
    /\ Len(last.heads) >= 2
    /\ LastHead < Len(argv)
    /\ argv[LastHead] = <<"-">>
    /\ argv[LastHead + 1] \in {<<"-", "h">>, <<"-", "=", "x">>, <<"-", "u">>}
    /\ \E n \in DOMAIN flags : flags[n].isSet

(***************************************************************************)
(* Alias format.                                                           *)
(***************************************************************************)
\* C17: a declaration that gives an alias which is not exactly one
\* character (no character, or two and more), or which is "-" or "=",
\* raises FlagDefinitionError and registers nothing.
C17_BadAliasRaises ==
    (/\ last.op = "declare"
     /\ last.decl.alias # Undef
     /\ \/ Len(last.decl.alias) # 1
        \/ last.decl.alias \in {<<"-">>, <<"=">>}) =>
        /\ last.outcome = "FlagDefinitionError"
        /\ flags = last.before.flags
        /\ aliases = last.before.aliases

(***************************************************************************)
(* The top-level parse function.                                           *)
(***************************************************************************)
LastEntry == last.op = "entry"

\* C18: the top-level parse writes and exits in a fixed order.  On the help
\* signal it logs the help once, writes nothing to the error sink and
\* exits with 0; on a parse error it writes the error message to the error
\* sink, then logs the help, then exits with 1; when the parse completes it
\* writes nothing and does not exit.  A help token in front always gives
\* the first case, an empty token sequence the last.
C18_EntryOrder ==
    LastEntry =>
        /\ last.outcome = "HelpRequestError" =>
               /\ last.sink = <<[to |-> "log", text |-> "help"]>>
               /\ last.exit = <<0>>
        /\ last.outcome = "FlagParseError" =>
               /\ Len(last.sink) = 2
               /\ last.sink[1] = [to |-> "error", text |-> last.message]
               /\ last.sink[2] = [to |-> "log", text |-> "help"]
               /\ last.exit = <<1>>
        /\ last.outcome = "Completed" =>
               /\ last.sink = <<>>
               /\ last.exit = <<>>
        /\ (argv # <<>> /\ IsHelpToken(argv[1])) => last.exit = <<0>>
        /\ argv = <<>> => last.exit = <<>>
        /\ last.exit # <<>> \/ isParsed

\* the top-level parse failed after a flag was set
C18_Witness ==
    /\ LastEntry
    /\ last.outcome = "FlagParseError"
    /\ last.exit = <<1>>
    /\ Len(last.sink) = 2
    /\ \E n \in DOMAIN flags : flags[n].isSet

(***************************************************************************)
(* One value application.                                                  *)
(***************************************************************************)
\* the value the literal str stands for in a type whose set() can throw
Coerced(type, str) ==
    IF type = "boolean"
    THEN BoolV(ToLowerCase(str) \in {<<"t", "r", "u", "e">>, <<"1">>})
    ELSE NumV(ParseFloat(str))

\* the place of the last token the step at place k takes when it is given str
ThroughOf(k, flag) == IF InlineTokenOf(argv[k], flag) THEN k ELSE k + 1

\* C19: a value application is all or nothing.  When parse gives a boolean
\* or number flag a string its type cannot coerce, the application raises
\* an error and the flag's value and isSet are exactly what they were
\* before it; when the string coerces, the flag holds the coerced value and
\* is set.  No call changes the type of a flag.
C19_SetAllOrNothing ==
    /\ LastParse =>
           \A k \in Reached : \A n \in DOMAIN flags :
               \A str \in {InlineValue(argv[k])} \cup
                          (IF k < Len(argv) THEN {argv[k + 1]} ELSE {}) :
                   (flags[n].type \in {"boolean", "number"} /\ GivesAt(k, flags[n], str)) =>
                       IF Coercible(flags[n].type, str)
                       THEN /\ FromBefore(SubSeq(argv, 1, ThroughOf(k, flags[n]))).flags[n]
                                   .currentValue = Coerced(flags[n].type, str)
                            /\ FromBefore(SubSeq(argv, 1, ThroughOf(k, flags[n]))).flags[n]
                                   .isSet
                       ELSE /\ last.outcome = "FlagParseError"
                            /\ LastHead = k
                            /\ flags[n].currentValue = FlagAt(n, k).currentValue
                            /\ flags[n].isSet = FlagAt(n, k).isSet
    /\ last.op \in {"parse", "reset"} =>
           \A n \in DOMAIN flags : flags[n].type = last.before.flags[n].type

\* a number flag that was given 0 and then a string that is no number: it
\* still holds 0, not its default, and is set
C19_Witness ==
    /\ LastParse
    /\ last.message = "invalid number"
    /\ flags[last.flagName].isSet
    /\ flags[last.flagName].currentValue = NumV(Num(0))
    /\ flags[last.flagName].defaultValue # NumV(Num(0))

(***************************************************************************)
(* The consumption loop.                                                   *)
(***************************************************************************)
\* the number of tokens the step at place k removes when it does not end
\* the parse: the token itself and, for a flag that takes the following
\* token as its value, that token
RemovedAt(k) == IF BareForValue(flags, argv[k]) THEN 2 ELSE 1

\* what a parse of argv reports on a newly built registry with the same
\* declarations
OnFresh == ParseFrom(Fresh(flags), aliases, FALSE, argv).last

\* C20: every parse ends, after at most as many steps as there are tokens:
\* the first step looks at the first token, every step that does not end
\* the parse removes one or two tokens, and a parse that completes has
\* stopped at "--" or a non-flag token or has used up the tokens.  What
\* the parse reports depends on the declarations and the tokens only, not
\* on what the registry held before.
C20_ParseTerminates ==
    LastParse =>
        /\ Len(last.heads) <= Len(argv)
        /\ last.outcome \in {"Completed", "FlagParseError", "HelpRequestError"}
        /\ argv = <<>> => (last.heads = <<>> /\ last.outcome = "Completed")
        /\ argv # <<>> => (last.heads # <<>> /\ last.heads[1] = 1)
        /\ \A i \in 1..(Len(last.heads) - 1) :
               last.heads[i + 1] = last.heads[i] + RemovedAt(last.heads[i])
        /\ (last.outcome = "Completed" /\ argv # <<>>) =>
               \/ StopsFlags(argv[LastHead])
               \/ LastHead + RemovedAt(LastHead) = Len(argv) + 1
        /\ last.outcome = OnFresh.outcome
        /\ last.message = OnFresh.message
        /\ last.flagName = OnFresh.flagName
        /\ last.offendingValue = OnFresh.offendingValue
        /\ last.heads = OnFresh.heads

\* a parse of three tokens on a registry parsed before, done in two steps:
\* one of them took the following token as its value
C20_Witness ==
    /\ LastParse
    /\ last.before.isParsed
    /\ \E n \in DOMAIN flags : last.before.flags[n].isSet
    /\ last.outcome = "Completed"
    /\ Len(argv) = 3
    /\ Len(last.heads) = 2
    /\ ~StopsFlags(argv[LastHead])

(***************************************************************************)
(* Resolution of the identifier.                                           *)
(***************************************************************************)
\* the identifiers token asks for: what stands between its one or two
\* dashes and its first "=", or its end
IdentifiersOf(token) ==
    { id \in {SubSeq(token, i, j) : i \in 2..3, j \in DOMAIN token} :
        /\ id # <<>>
        /\ id[1] # "-"
        /\ \A i \in DOMAIN id : id[i] # "="
        /\ Spells(token, id) }

\* the flags as the step at place k of the latest parse left them
AfterStep(k) ==
    IF k = LastHead THEN flags
    ELSE FromBefore(Before(CHOOSE h \in Reached :
                               h > k /\ \A g \in Reached : g > k => g >= h)).flags

\* the step at place k went to the flag named n: no other flag has changed,
\* and either the flag is set or parse has failed there naming it
ResolvedTo(k, n) ==
    /\ \A m \in DOMAIN flags \ {n} : AfterStep(k)[m] = FlagAt(m, k)
    /\ IF k = LastHead /\ last.outcome = "FlagParseError"
       THEN last.flagName = n
       ELSE AfterStep(k)[n].isSet

\* C21: when parse gets to a flag token whose identifier is not the help
\* request, the identifier is looked up among the aliases first and among
\* the names second, and the step goes to the flag found; when it is
\* neither an alias nor a name, parse fails there with "Unknown flag"
\* carrying the identifier (no dashes, no inline value), and no flag has
\* changed.
C21_Resolution ==
    LastParse =>
        \A k \in Reached : \A id \in IdentifiersOf(argv[k]) :
            ~IsHelpToken(argv[k]) =>
                IF MapHas(aliases, id) THEN ResolvedTo(k, aliases[id])
                ELSE IF MapHas(flags, id) THEN ResolvedTo(k, id)
                ELSE FailedAt(k, id, "Unknown flag", Undef)

\* a parse that set a flag and then failed at a token with an inline value
\* whose identifier is not registered
C21_Witness ==
    /\ LastParse
    /\ Len(last.heads) >= 2
    /\ last.outcome = "FlagParseError"
    /\ last.message = "Unknown flag"
    /\ last.flagName = <<"w">>
    /\ argv[LastHead] = <<"-", "-", "w", "=", "x">>
    /\ ~MapHas(flags, <<"w">>)
    /\ \E n \in DOMAIN flags : flags[n].isSet

(***************************************************************************)
(* Number literals.                                                        *)
(***************************************************************************)
AllDigits(str) == \A i \in DOMAIN str : IsDigit(str[i])

\* digits, with at most one "." among them, and at least one digit
IsMantissa(str) ==
    \/ str # <<>> /\ AllDigits(str)
    \/ \E i \in DOMAIN str :
           /\ str[i] = "."
           /\ Len(str) > 1
           /\ AllDigits(SubSeq(str, 1, i - 1))
           /\ AllDigits(SubSeq(str, i + 1, Len(str)))

\* an optional sign and at least one digit
IsExponent(str) ==
    /\ str # <<>>
    /\ IF str[1] \in {"+", "-"}
       THEN Len(str) > 1 /\ AllDigits(Tail(str))
       ELSE AllDigits(str)

IsUnsignedLiteral(str) ==
    \/ IsMantissa(str)
    \/ \E i \in DOMAIN str :
           /\ str[i] \in {"e", "E"}
           /\ IsMantissa(SubSeq(str, 1, i - 1))
           /\ IsExponent(SubSeq(str, i + 1, Len(str)))

\* the whole of str is a floating-point literal
IsFloatLiteral(str) ==
    /\ str # <<>>
    /\ IF str[1] \in {"+", "-"} THEN IsUnsignedLiteral(Tail(str))
       ELSE IsUnsignedLiteral(str)

\* C22: when parse gives a number flag a string, the string is accepted
\* exactly when the whole of it is a floating-point literal, and then the
\* flag holds that number and is set; for every other string (text, the
\* empty string, a number followed by other characters, NaN) parse fails
\* there with "invalid number" and the flag holds what it held before.
C22_WholeLiteralOnly ==
    LastParse =>
        \A k \in Reached : \A n \in DOMAIN flags :
            \A str \in {InlineValue(argv[k])} \cup
                       (IF k < Len(argv) THEN {argv[k + 1]} ELSE {}) :
                (flags[n].type = "number" /\ GivesAt(k, flags[n], str)) =>
                    IF IsFloatLiteral(str)
                    THEN /\ FromBefore(SubSeq(argv, 1, ThroughOf(k, flags[n]))).flags[n]
                                .currentValue = NumV(ParseFloat(str))
                         /\ FromBefore(SubSeq(argv, 1, ThroughOf(k, flags[n]))).flags[n]
                                .isSet
                    ELSE /\ FailedAt(k, n, "invalid number", str)
                         /\ flags[n].currentValue = FlagAt(n, k).currentValue

(***************************************************************************)
(* Declarations that fail.                                                 *)
(***************************************************************************)
DeclarationFailed == last.op = "declare" /\ last.outcome = "FlagDefinitionError"

\* C23: a declaration that fails with FlagDefinitionError leaves the
\* registry as it found it: the flags and the aliases are the same maps,
\* so neither the name nor the alias of the rejected declaration has been
\* added.  And at all times every alias maps to the name of a declared
\* flag, the flag that carries that alias.
C23_FailedDeclarationLeavesRegistry ==
    /\ DeclarationFailed =>
           /\ flags = last.before.flags
           /\ aliases = last.before.aliases
           /\ isParsed = last.before.isParsed
    /\ \A a \in DOMAIN aliases :
           /\ MapHas(flags, aliases[a])
           /\ flags[aliases[a]].alias = a

\* a declaration rejected for its alias alone: its name is free
RejectedForAlias ==
    /\ DeclarationFailed
    /\ ~MapHas(flags, last.decl.name)
    /\ ~MapHas(aliases, last.decl.name)
    /\ last.decl.alias # Undef
    /\ MapHas(aliases, last.decl.alias)

\* such a rejection on a registry that holds aliases and was parsed
C23_Witness == RejectedForAlias /\ aliases # EmptyMap /\ isParsed

(***************************************************************************)
(* What a parse leaves in the flags.                                       *)
(***************************************************************************)
\* the token of place k asks for the flag, by name or alias
ResolvesTo(k, flag) == BareTokenOf(argv[k], flag) \/ InlineTokenOf(argv[k], flag)

\* the step at place k of the latest parse ended without error
Succeeded(k) == k # LastHead \/ last.outcome = "Completed"

\* C24: after a parse (every parse starts from a new registry or resets the
\* flags first), a flag is set exactly when some token the parse got to
\* asked for it and was applied without error; and a flag no such token
\* asked for holds its default value and is not set.
C24_SetIffApplied ==
    LastParse =>
        \A n \in DOMAIN flags :
            /\ flags[n].isSet <=>
                   \E k \in Reached : ResolvesTo(k, flags[n]) /\ Succeeded(k)
            /\ (\A k \in Reached : ~ResolvesTo(k, flags[n])) =>
                   /\ flags[n].currentValue = flags[n].defaultValue
                   /\ ~flags[n].isSet

(***************************************************************************)
(* Flags under the identifiers of the help request.                        *)
(***************************************************************************)
HelpIdentifiers == { <<"h">>, <<"h", "e", "l", "p">> }

\* the declaration d uses an identifier of the help request
UsesHelpIdentifier(d) == d.name \in HelpIdentifiers \/ d.alias = <<"h">>

\* such a declaration is accepted like any other, and a token that spells
\* h or help, with or without an inline value, raises the help request
\* when parse gets to it and changes no flag
HelpShadows ==
    /\ (last.op = "declare" /\ UsesHelpIdentifier(last.decl)
            /\ ~Collides(last.decl, last.before.flags)) =>
           /\ last.outcome = "ok"
           /\ MapHas(flags, last.decl.name)
    /\ LastParse =>
           \A k \in Reached :
               IsHelpToken(argv[k]) =>
                   /\ HelpRaised
                   /\ LastHead = k
                   /\ flags = FromBefore(Before(k)).flags

\* some token the parse got to, applied without error, spells id
SetThrough(id) == \E k \in Reached : Succeeded(k) /\ Spells(argv[k], id)

\* C25 as stated: a flag named h or help, or aliased h, can be declared; a
\* token that spells h or help raises the help request and sets nothing;
\* so a flag named h or help is never set by parse, and a flag aliased h is
\* set through its name only.
C25_HelpNamedNeverSet ==
    /\ HelpShadows
    /\ LastParse =>
           \A n \in DOMAIN flags :
               /\ flags[n].name \in HelpIdentifiers => ~flags[n].isSet
               /\ (flags[n].alias = <<"h">> /\ flags[n].isSet) =>
                      SetThrough(flags[n].name)

\* C25: a flag named h or help, or aliased h, can be declared; a token that
\* spells h or help raises the help request and sets nothing; so a flag is
\* set only through an identifier of its own that is neither h nor help: a
\* flag named h or help through its alias when that is not h (and never
\* when it has no such alias), a flag aliased h through its name.
C25_HelpIdentifiersNeverSet ==
    /\ HelpShadows
    /\ LastParse =>
           \A n \in DOMAIN flags :
               flags[n].isSet =>
                   \E id \in {flags[n].name, flags[n].alias} \ (HelpIdentifiers \cup {Undef}) :
                       SetThrough(id)

\* a flag named help that is set, through its alias p, by a parse that then
\* got to --help
C25_Witness ==
    /\ HelpRaised
    /\ MapHas(flags, <<"h", "e", "l", "p">>)
    /\ flags[<<"h", "e", "l", "p">>].isSet
    /\ Len(last.heads) >= 2
    /\ argv[LastHead] = <<"-", "-", "h", "e", "l", "p">>

====
